---- MODULE Spec2Model ----
(***************************************************************************)
(* BaoAgent persistent speech service: the worker (baoagent_service.py)    *)
(* and its client (baoagent_client.py), talking over the worker's          *)
(* line-delimited stdin/stdout pipes.                                      *)
(*                                                                         *)
(* The external model runners are opaque: every run draws its outcome      *)
(* (exit status, timeout, spawn error), its captured output and the       *)
(* outcome of the file clean-up from small sets.                           *)
(***************************************************************************)
EXTENDS Naturals, Sequences, FiniteSets, TLC

\* ------------------------------------------------------------------ bounds
\* lines the environment feeds to a stand-alone worker
MaxFeed == 2
\* send_command calls one client makes
MaxCalls == 2
\* lines of tool output handed to the transcript filter
MaxLines == 3
\* bytes of an audio buffer handed to the transport
MaxBytes == 3
\* threads of the web server that run create_appointment at the same time
MaxHandlers == 2

\* --------------------------------------------------------------- constants
TTS_SAMPLE_RATE == 24000

\* ------------------------------------------------------- external outcomes
\* subprocess.run: exit 0, exit # 0, TimeoutExpired, OSError on spawn
ToolOutcomes == {"ok", "nonzero", "timeout", "oserror"}
\* os.unlink of a temporary file
UnlinkOutcomes == {"ok", "raise"}
\* sf.read of the synthesised file: samples, a file of zero frames, an error
ReadOutcomes == {"samples", "empty", "raise"}

\* Captured stdout/stderr of the synthesis tool, as its lines.
ToolTexts == {"plain", "jsonish"}
ToolLines(t) == IF t = "plain" THEN <<"done">> ELSE <<"config:", "{}", "done">>

\* Captured stdout of the transcription tool, as its lines.
SttTexts == {"speech", "debugonly"}
SttLines(t) ==
    IF t = "speech" THEN <<"Info: loading model", "hello world", "12 token per sec">>
                    ELSE <<"Info: loading model", "{", "}">>

\* What one handler meets in its environment is a record of: warm and
\* wunlink (the warm-up run and its clean-up), run and unlink (the real run
\* and its clean-up), read (the read of the synthesised file), out (the
\* captured streams of the synthesis tool), sttout (the captured stdout of the
\* transcription tool).

\* ------------------------------------------------------------ text of lines
\* The texts of the model that are JSON documents by themselves.
JsonTexts == {"42", "{}"}
\* Marks the text json.dumps produced for the object a line carries.
Dumped == "<json.dumps>"

Absent == "absent"
NoObj == [type |-> Absent, success |-> Absent, text |-> Absent, audio_data |-> Absent,
          sample_rate |-> 0, error |-> Absent,
          stt_warmed_up |-> Absent, tts_warmed_up |-> Absent]

\* One line of the worker's stdout: its text is pre \o raw \o suf; obj is the
\* object serialised in it (NoObj if none).  origin and cmd are history tags:
\* the print statement the line came from and the command being handled.
StdoutLine(origin, cmd, pre, raw, suf, obj) ==
    [origin |-> origin, cmd |-> cmd, pre |-> pre, raw |-> raw, suf |-> suf, obj |-> obj]

\* print("...") of a fixed, single-line text
Diag(cmd, label) == <<StdoutLine("diag", cmd, label, "", "", NoObj)>>

\* print(f"{prefix}{value}{suffix}") where value spans the lines `lines`:
\* the prefix lands on the first line, the suffix on the last, and the lines
\* in between are the value's own lines, verbatim.
DiagF(cmd, prefix, lines, suffix) ==
    [i \in 1..Len(lines) |->
        StdoutLine("diag", cmd,
                   IF i = 1 THEN prefix ELSE "",
                   lines[i],
                   IF i = Len(lines) THEN suffix ELSE "",
                   NoObj)]

\* json.loads(line) succeeds
ParsesAsJSON(l) == l.pre = "" /\ l.suf = "" /\ (l.raw = Dumped \/ l.raw \in JsonTexts)

\* line.strip() is empty
IsBlank(l) == l.pre = "" /\ l.suf = "" /\ l.raw = ""

BoolStr(b) == IF b THEN "true" ELSE "false"

\* ---------------------------------------------------------------- commands
\* One line of the worker's stdin.  form: the literal quit line, a text that
\* is not JSON, a JSON document that is not an object, or a JSON object with
\* the fields type, audio_data and text (Absent: the key is missing).
AudioValues == {"pcm", "", Absent}
TextValues == {"Hello", "multi", Absent}
TextLines(t) ==
    IF t = "Hello" THEN <<"Hello">>
    ELSE IF t = "multi" THEN <<"a", "42", "b">>
    ELSE <<"">>

CommandLine(form, type, audio, text) ==
    [form |-> form, type |-> type, audio_data |-> audio, text |-> text]

CommandLines ==
    {CommandLine("object", "transcribe", a, Absent) : a \in AudioValues}
    \cup {CommandLine("object", "tts", Absent, t) : t \in TextValues}
    \cup {CommandLine("object", ty, Absent, Absent) : ty \in {"status", "bogus", Absent}}
    \cup {CommandLine(f, Absent, Absent, Absent) : f \in {"badjson", "nonobject"}}

QuitLine == CommandLine("quit", Absent, Absent, Absent)

\* -------------------------------------------------------------- BaoAgentService
\* warmup_stt that reports success without setting the flag
WarmupSttForgetsFlag(warmed, env, cmd) ==
    IF warmed
    THEN [flag |-> TRUE, ok |-> TRUE, tried |-> FALSE, toolOk |-> FALSE, lines |-> <<>>,
          left |-> 0, failed |-> FALSE]
    ELSE LET raised == env.warm \in {"timeout", "oserror"} \/ env.wunlink = "raise"
         IN  [flag |-> FALSE, ok |-> ~raised, tried |-> TRUE, toolOk |-> env.warm = "ok",
              lines |-> Diag(cmd, "Warming up STT model..."),
              left |-> IF raised THEN 1 ELSE 0, failed |-> env.warm # "ok"]

\* warmup_stt: returns the new flag, the return value, whether a warm-up was
\* attempted, whether the tool was run, and the lines printed; left is the
\* number of temporary files of the call still on disk when it returns (the
\* unlink of line 43 is skipped by a run that raised, and a file whose unlink
\* raised was not removed), failed tells that the run did not exit with 0.
WarmupStt(warmed, env, cmd) ==
    IF warmed
    THEN [flag |-> TRUE, ok |-> TRUE, tried |-> FALSE, toolOk |-> FALSE, lines |-> <<>>,
          left |-> 0, failed |-> FALSE]
    ELSE LET raised == env.warm \in {"timeout", "oserror"} \/ env.wunlink = "raise"
         IN  [flag   |-> ~raised,
              ok     |-> ~raised,
              tried  |-> TRUE,
              toolOk |-> env.warm = "ok",
              lines  |-> Diag(cmd, "Warming up STT model...")
                         \o (IF raised THEN Diag(cmd, "STT warmup failed: {e}")
                                       ELSE Diag(cmd, "STT model warmed up successfully!")),
              left   |-> IF raised THEN 1 ELSE 0,
              failed |-> env.warm # "ok"]

\* warmup_tts (check=True: a non-zero exit raises CalledProcessError).  Its two
\* temporary files are unlinked on lines 79-80 only, after a run that exited
\* with 0; the first unlink that raises leaves both.
WarmupTts(warmed, env, cmd) ==
    IF warmed
    THEN [flag |-> TRUE, ok |-> TRUE, tried |-> FALSE, toolOk |-> FALSE, lines |-> <<>>,
          left |-> 0, failed |-> FALSE]
    ELSE LET raised == env.warm # "ok" \/ env.wunlink = "raise"
             head == Diag(cmd, "Warming up TTS model...")
                     \o Diag(cmd, "Using TTS script: delayed-streams-modeling/scripts/tts_mlx.py")
                     \o Diag(cmd, "Executing TTS command: {cmd}")
             tail == IF env.warm = "ok"
                     THEN Diag(cmd, "TTS warmup command completed successfully")
                          \o DiagF(cmd, "TTS stdout: ", ToolLines(env.out), "")
                          \o (IF env.wunlink = "raise"
                              THEN Diag(cmd, "TTS warmup failed: {e}")
                                   \o Diag(cmd, "Continuing without TTS functionality...")
                              ELSE Diag(cmd, "TTS model warmed up successfully!"))
                     ELSE IF env.warm = "nonzero"
                     THEN Diag(cmd, "TTS warmup failed: {e}")
                          \o DiagF(cmd, "TTS stderr: ", ToolLines(env.out), "")
                          \o DiagF(cmd, "TTS stdout: ", ToolLines(env.out), "")
                          \o Diag(cmd, "Continuing without TTS functionality...")
                     ELSE Diag(cmd, "TTS warmup failed: {e}")
                          \o Diag(cmd, "Continuing without TTS functionality...")
         IN  [flag |-> ~raised, ok |-> ~raised, tried |-> TRUE,
              toolOk |-> env.warm = "ok", lines |-> head \o tail,
              left |-> IF raised THEN 2 ELSE 0, failed |-> env.warm # "ok"]

\* Lines of tool output as the filter of transcribe_audio meets them, before
\* any stripping: plain text, text and patterns with blanks around them, an
\* empty line, a line of blanks only.
ScanLines == {"hello world", " good morning ", "", "  ", "Info: loading model", " {",
              "the lights were dim"}

\* str.strip() (line 123)
Strip(s) ==
    IF s = " good morning " THEN "good morning"
    ELSE IF s = "  " THEN ""
    ELSE IF s = " {" THEN "{"
    ELSE s

\* The line filter of transcribe_audio (lines 125-134): starts with Info:, {
\* or }, or contains one of the metadata keywords (dim is one of them).
InfoLines == {"Info: loading model"}
BraceLines == {"{", "}"}
KeywordLines == {"12 token per sec", "the lights were dim"}
IsDebugLine(s) == s \in InfoLines \cup BraceLines \cup KeywordLines

\* The backward scan of transcribe_audio (lines 119-139) over lines[1..n]:
\* each line is stripped, then filtered, and the first one left that is not
\* empty is the transcription.
RECURSIVE ScanBack(_, _)
ScanBack(lines, n) ==
    IF n = 0 THEN ""
    ELSE IF IsDebugLine(Strip(lines[n])) THEN ScanBack(lines, n - 1)
    ELSE IF Strip(lines[n]) # "" THEN Strip(lines[n])
    ELSE ScanBack(lines, n - 1)

\* a filter that looks at the first line of the output only
ExtractTranscriptionHead(lines) == ScanBack(lines, 1)

\* lines 117-141: stdout.strip().split('\n') always yields at least one
\* line, and the blanks the outer strip removes are lines the scan skips.
ExtractTranscription(lines) == ScanBack(lines, Len(lines))

\* transcribe_audio, lines 106-147: the try block.  ret is "value" (text
\* holds the transcription) or "None".
SttTry(env, cmd) ==
    IF env.run = "ok"
    THEN [ret |-> "value", text |-> ExtractTranscription(SttLines(env.sttout)), lines |-> <<>>]
    ELSE IF env.run = "timeout"
    THEN [ret |-> "None", text |-> "null", lines |-> Diag(cmd, "STT inference timed out")]
    ELSE [ret |-> "None", text |-> "null", lines |-> Diag(cmd, "STT inference failed: {e}")]

\* transcribe_audio, lines 148-149: the finally clause; an unlink that raises
\* replaces what the try block returned (ret "raise").
SttFinally(body, env) ==
    [ret   |-> IF env.unlink = "raise" THEN "raise" ELSE body.ret,
     text  |-> IF env.unlink = "raise" THEN "null" ELSE body.text,
     lines |-> body.lines,
     left  |-> IF env.unlink = "raise" THEN 1 ELSE 0,
     failed |-> env.run # "ok"]

\* transcribe_audio, lines 101-149: the run of the tool on the caller's audio
SttInference(env, cmd) == SttFinally(SttTry(env, cmd), env)

\* What transcribe_audio (text_to_speech) hands back after the warm-up w and
\* the run r, and after a warm-up w that failed.
AfterRun(w, r) ==
    [ret |-> r.ret, payload |-> r.payload, flag |-> w.flag, tried |-> w.tried,
     toolOk |-> w.toolOk, warmOk |-> w.tried /\ w.ok, ran |-> TRUE,
     lines |-> w.lines \o r.lines,
     left |-> w.left + r.left, failed |-> w.failed \/ r.failed]
AfterFailedWarmup(w, none) ==
    [ret |-> "None", payload |-> none, flag |-> w.flag, tried |-> w.tried,
     toolOk |-> w.toolOk, warmOk |-> FALSE, ran |-> FALSE, lines |-> w.lines,
     left |-> w.left, failed |-> w.failed]

\* a warm-up that was not attempted
NotAttempted(warmed) ==
    [flag |-> warmed, ok |-> TRUE, tried |-> FALSE, toolOk |-> FALSE, lines |-> <<>>,
     left |-> 0, failed |-> FALSE]

\* The transcription as the payload of the run.
SttPayload(r) ==
    [ret |-> r.ret, payload |-> r.text, lines |-> r.lines, left |-> r.left, failed |-> r.failed]

\* transcribe_audio, lines 97-99 after the call of warmup_stt returned w
TranscribeGuard(w, warmed, env, cmd) ==
    IF ~warmed /\ ~w.ok
    THEN AfterFailedWarmup(w, "null")
    ELSE AfterRun(w, SttPayload(SttInference(env, cmd)))

\* transcribe_audio that goes on to the tool run after a failed warm-up
TranscribeAudioProceeds(warmed, env, cmd) ==
    AfterRun(WarmupStt(warmed, env, cmd), SttPayload(SttInference(env, cmd)))

\* transcribe_audio that never warms up
TranscribeAudioNoWarmup(warmed, env, cmd) ==
    AfterRun(NotAttempted(warmed), SttPayload(SttInference(env, cmd)))

\* transcribe_audio: the lazy warm-up, then the run
TranscribeAudio(warmed, env, cmd) ==
    TranscribeGuard(WarmupStt(warmed, env, cmd), warmed, env, cmd)

\* base64.b64encode(samples.tobytes()) of n samples: empty exactly for none
B64OfSamples(n) == IF n = 0 THEN "" ELSE "<base64>"

\* text_to_speech, lines 168-196: the try block.  ret is "value" (samples
\* holds the number of samples read) or "None".
TtsTry(env, cmd) ==
    IF env.run = "ok"
    THEN [ret |-> IF env.read = "raise" THEN "None" ELSE "value",
          samples |-> IF env.read = "samples" THEN 1 ELSE 0,
          lines |-> Diag(cmd, "Executing TTS inference command: {cmd}")
                    \o Diag(cmd, "TTS inference command completed successfully")
                    \o DiagF(cmd, "TTS inference stdout: ", ToolLines(env.out), "")
                    \o (IF env.read = "raise"
                        THEN Diag(cmd, "TTS inference failed: {e}")
                        ELSE Diag(cmd, "Generated audio with {n} samples"))]
    ELSE IF env.run = "nonzero"
    THEN [ret |-> "None", samples |-> 0,
          lines |-> Diag(cmd, "Executing TTS inference command: {cmd}")
                    \o Diag(cmd, "TTS inference failed: {e}")
                    \o DiagF(cmd, "TTS inference stderr: ", ToolLines(env.out), "")
                    \o DiagF(cmd, "TTS inference stdout: ", ToolLines(env.out), "")]
    ELSE IF env.run = "timeout"
    THEN [ret |-> "None", samples |-> 0,
          lines |-> Diag(cmd, "Executing TTS inference command: {cmd}")
                    \o Diag(cmd, "TTS inference timed out")]
    ELSE [ret |-> "None", samples |-> 0,
          lines |-> Diag(cmd, "Executing TTS inference command: {cmd}")
                    \o Diag(cmd, "TTS inference failed: {e}")]

\* text_to_speech, lines 197-199: the finally clause; an unlink that raises
\* replaces what the try block returned (ret "raise").
TtsFinally(body, env) ==
    [ret     |-> IF env.unlink = "raise" THEN "raise" ELSE body.ret,
     payload |-> IF env.unlink = "raise" THEN 0 ELSE body.samples,
     lines   |-> body.lines,
     left    |-> IF env.unlink = "raise" THEN 2 ELSE 0,
     failed  |-> env.run # "ok"]

\* text_to_speech, lines 157-199: the run of the tool on the caller's text
TtsInference(text, env, cmd) ==
    [TtsFinally(TtsTry(env, cmd), env) EXCEPT
        !.lines = DiagF(cmd, "Generating TTS for text: '", TextLines(text), "'") \o @]

\* text_to_speech, lines 153-155 after the call of warmup_tts returned w
SpeechGuard(w, warmed, text, env, cmd) ==
    IF ~warmed /\ ~w.ok
    THEN AfterFailedWarmup(w, 0)
    ELSE AfterRun(w, TtsInference(text, env, cmd))

\* text_to_speech: the lazy warm-up, then the run
TextToSpeech(warmed, text, env, cmd) ==
    SpeechGuard(WarmupTts(warmed, env, cmd), warmed, text, env, cmd)

\* The objects process_command serialises.
TranscriptionResult(text, success) ==
    [NoObj EXCEPT !.type = "transcription_result", !.text = text, !.success = BoolStr(success)]
TtsResultOk(audio) ==
    [NoObj EXCEPT !.type = "tts_result", !.audio_data = audio,
                  !.sample_rate = TTS_SAMPLE_RATE, !.success = "true"]
TtsResultFailed ==
    [NoObj EXCEPT !.type = "tts_result", !.success = "false", !.error = "TTS generation failed"]
\* a status object with the two flags exchanged
StatusResultSwapped(stt, tts) ==
    [NoObj EXCEPT !.type = "status", !.stt_warmed_up = BoolStr(tts), !.tts_warmed_up = BoolStr(stt)]
StatusResult(stt, tts) ==
    [NoObj EXCEPT !.type = "status", !.stt_warmed_up = BoolStr(stt), !.tts_warmed_up = BoolStr(tts)]
\* an error object without its message
ErrorResultSilent(msg) == [NoObj EXCEPT !.type = "error"]
ErrorResult(msg) == [NoObj EXCEPT !.type = "error", !.error = msg]

\* a command without a handler that nevertheless marks the STT model warm
UntouchedWarms(stt, tts) ==
    [stt |-> TRUE, tts |-> tts, tried |-> "none", toolOk |-> FALSE, warmOk |-> FALSE,
     ran |-> FALSE, lines |-> <<>>, left |-> 0, failed |-> FALSE]

\* What a handler leaves behind when no handler ran.
Untouched(stt, tts) ==
    [stt |-> stt, tts |-> tts, tried |-> "none", toolOk |-> FALSE, warmOk |-> FALSE,
     ran |-> FALSE, lines |-> <<>>, left |-> 0, failed |-> FALSE]

\* The fields every outcome of process_command shares, from the outcome h of
\* the handler it called.
Handled(h, model) ==
    [tried |-> IF h.tried THEN model ELSE "none",
     toolOk |-> h.toolOk, warmOk |-> h.warmOk, ran |-> h.ran, lines |-> h.lines,
     left |-> h.left, failed |-> h.failed,
     ret |-> "json"]

\* lines 216-221 with the flag cleared by a failed transcription
TranscribeResponseResets(t, tts) ==
    Handled(t, "stt")
    @@ [stt |-> t.flag /\ t.ret = "value", tts |-> tts,
        obj |-> IF t.ret = "raise" THEN ErrorResult("{str(e)}")
                ELSE TranscriptionResult(t.payload, t.ret = "value")]

\* lines 216-221 with one flag shared by the two models
TranscribeResponseShared(t, tts) ==
    Handled(t, "stt")
    @@ [stt |-> t.flag, tts |-> t.flag,
        obj |-> IF t.ret = "raise" THEN ErrorResult("{str(e)}")
                ELSE TranscriptionResult(t.payload, t.ret = "value")]

\* process_command, lines 216-221 (and 257-261 when transcribe_audio raised)
\* after transcribe_audio returned t
TranscribeResponse(t, tts) ==
    Handled(t, "stt")
    @@ [stt |-> t.flag, tts |-> tts,
        obj |-> IF t.ret = "raise" THEN ErrorResult("{str(e)}")
                ELSE TranscriptionResult(t.payload, t.ret = "value")]

\* process_command, lines 207-221: the transcribe branch.  It returns
\* nothing (the function falls off its end) when audio_data is missing or empty.
HandleTranscribe(line, stt, tts, env, cmd) ==
    IF line.audio_data \in {"", Absent}
    THEN Untouched(stt, tts) @@ [ret |-> "None", obj |-> NoObj]
    ELSE TranscribeResponse(TranscribeAudio(stt, env, cmd), tts)

\* process_command, lines 227-242 (and 257-261 when text_to_speech raised)
\* after text_to_speech returned a
SpeechResponse(a, stt) ==
    Handled(a, "tts")
    @@ [stt |-> stt, tts |-> a.flag,
        obj |-> IF a.ret = "raise" THEN ErrorResult("{str(e)}")
                ELSE IF a.ret = "value" THEN TtsResultOk(B64OfSamples(a.payload))
                ELSE TtsResultFailed]

\* process_command, lines 223-242: the tts branch
HandleTts(line, stt, tts, env, cmd) ==
    SpeechResponse(TextToSpeech(tts, line.text, env, cmd), stt)

\* process_command: ret is "json" (obj is the object whose serialisation is
\* returned) or "None" (the function falls off its end).
ProcessCommand(line, stt, tts, env, cmd) ==
    IF line.form # "object"
    THEN \* json.loads raises, or the document has no get()
         Untouched(stt, tts) @@ [ret |-> "json", obj |-> ErrorResult("{str(e)}")]
    ELSE IF line.type = "transcribe" THEN HandleTranscribe(line, stt, tts, env, cmd)
    ELSE IF line.type = "tts" THEN HandleTts(line, stt, tts, env, cmd)
    ELSE IF line.type = "status"
    THEN Untouched(stt, tts) @@ [ret |-> "json", obj |-> StatusResult(stt, tts)]
    ELSE Untouched(stt, tts)
         @@ [ret |-> "json", obj |-> ErrorResult("Unknown command type: {cmd_type}")]

\* print(result) of the main loop
ResultLine(cmd, r) ==
    IF r.ret = "json" THEN <<StdoutLine("result", cmd, "", Dumped, "", r.obj)>>
                      ELSE <<StdoutLine("result", cmd, "", "None", "", NoObj)>>

\* debug_tts_models: the lines it prints (it touches no flag)
DebugTtsModels(env) ==
    Diag(0, "") \o Diag(0, "=== TTS Script Debug ===")
    \o (IF env.run \in {"timeout", "oserror"}
        THEN Diag(0, "x TTS script - ERROR: {e}")
        ELSE Diag(0, "Testing command: {cmd}")
             \o (IF env.run = "ok"
                 THEN Diag(0, "v TTS script - SUCCESS") \o Diag(0, "  Generated audio file: {path}")
                 ELSE Diag(0, "x TTS script - FAILED") \o Diag(0, "  Return code: {n}")
                      \o DiagF(0, "  Stderr: ", ToolLines(env.out), "..."))
             \o (IF env.unlink = "raise" THEN Diag(0, "x TTS script - ERROR: {e}") ELSE <<>>))
    \o Diag(0, "") \o Diag(0, "=== TTS Debug Complete ===")

\* ------------------------------------------------------------------- state
VARIABLES
    wpc,            \* the worker: "off", "start", "warmup_stt", "warmup_tts",
                    \* "ready", "loop" (about to call input()), "handling"
                    \* (input() has returned command_line), "exited"
    command_line,   \* main's command_line: the line input() returned last
    stt_warmed_up,  \* BaoAgentService.stt_warmed_up
    tts_warmed_up,  \* BaoAgentService.tts_warmed_up
    stdin,          \* lines written to the worker's stdin and not yet read
    stdinEOF,       \* the write end of the worker's stdin is closed
    stdout,         \* lines the worker printed that nobody has read yet
    process,        \* BaoAgentClient.process is not None
    service_ready,  \* BaoAgentClient.service_ready
    cpc,            \* the client: "idle", "starting", "waiting", "stopping"
    pending,        \* the command of the send_command call in progress
    written,        \* history: number of command lines written to a worker's stdin
    handled,        \* history: number of commands this worker has answered
    emitted,        \* history: the lines print(result) printed, in order
    last,           \* history: what the last step of the worker did
    boot,           \* history: return values of the two start-up warm-ups
    hist,           \* history: what has succeeded so far
    returns,        \* history: what the send_command calls returned, in order
    stopped,        \* history: how the last stop_service call went (NoStop once
                    \* another call of the client was made)
    scan,           \* the transcript filter applied on its own: its input lines
                    \* (stdout_lines), its result and whether it has run
    codec,          \* the audio transport applied on its own: the byte buffer,
                    \* its base64 text, what that text decodes to, and the step
    handlers,       \* the create_appointment calls in progress, one per thread
    customers,      \* the scheduling datastore: phone of each customer, by id
    appointments    \* the scheduling datastore: customer id of each appointment

workerVars == <<wpc, command_line, stt_warmed_up, tts_warmed_up, handled, emitted, last,
               boot, hist>>
pipeVars == <<stdin, stdinEOF, stdout, written>>
clientVars == <<process, service_ready, cpc, pending, returns, stopped>>
apiVars == <<handlers, customers, appointments>>
sideVars == <<scan, codec, apiVars>>
vars == <<workerVars, pipeVars, clientVars, sideVars>>

NoLine == CommandLine("none", Absent, Absent, Absent)
NoLast == [op |-> "none", id |-> 0, line |-> NoLine, sttBefore |-> FALSE, ttsBefore |-> FALSE,
           tried |-> "none", toolOk |-> FALSE, warmOk |-> FALSE, ran |-> FALSE,
           left |-> 0, failed |-> FALSE,
           ret |-> "none", obj |-> NoObj]

\* Nothing has happened yet: no command has succeeded, no warm-up has
\* succeeded, and every line read so far (none) was a valid command.
NoHist == [sttCmdOk |-> FALSE, ttsCmdOk |-> FALSE, sttWarm |-> FALSE, ttsWarm |-> FALSE,
           allValid |-> TRUE]

\* A command of the protocol: a JSON object of type transcribe (with its
\* audio_data, an encoded buffer of any length), tts or status.
ValidCommand(line) ==
    /\ line.form = "object"
    /\ line.type \in {"transcribe", "tts", "status"}
    /\ line.type = "transcribe" => line.audio_data # Absent

\* The history of a worker step `op` that handles no command.
LastOf(op) == [NoLast EXCEPT !.op = op,
                             !.sttBefore = stt_warmed_up, !.ttsBefore = tts_warmed_up]

\* A stdin line with its history tag id: its position among the command
\* lines written (0 for the quit line of stop_service).
Tagged(line, id) == [line |-> line, id |-> id]

\* running: the worker process was alive when stop_service was called;
\* wrote: stop_service called stdin.write; raised: it ended in an exception.
NoStop == [op |-> "none", running |-> FALSE, wrote |-> FALSE, raised |-> FALSE]
StopOutcome(running, wrote, raised) ==
    [op |-> "stop", running |-> running, wrote |-> wrote, raised |-> raised]

\* The filter is not under study: nothing to scan.
NoScan == [stdout_lines |-> <<>>, transcription |-> "", done |-> TRUE]

\* The transport is not under study: nothing to encode.
NoCodec == [buffer |-> <<>>, audio_b64 |-> <<>>, audio_bytes |-> <<>>, step |-> "decoded"]

\* The threads of the web server that run create_appointment.
Handlers == 1..MaxHandlers

\* Values of the JSON body: a string, a number, or no such key.
JStr(v) == [kind |-> "str", v |-> v]
JNum(v) == [kind |-> "num", v |-> v]
JAbsent == [kind |-> "absent", v |-> ""]

RequiredFields ==
    {"customer_phone", "customer_name", "appointment_date", "appointment_time",
     "origin_address", "destination_address"}

\* A thread with no request: no body, no customer, no response yet
\* (status 0), no request made to the datastore.
IdleHandler ==
    [pc |-> "idle", data |-> [f \in RequiredFields |-> JAbsent],
     customer_id |-> 0, status |-> 0, calls |-> 0]

\* No request has come in and the datastore is empty.
ApiIdle ==
    /\ handlers = [h \in Handlers |-> IdleHandler]
    /\ customers = <<>>
    /\ appointments = <<>>

InitCommon ==
    /\ command_line = Tagged(NoLine, 0)
    /\ stt_warmed_up = FALSE
    /\ tts_warmed_up = FALSE
    /\ stdin = <<>>
    /\ stdinEOF = FALSE
    /\ stdout = <<>>
    /\ process = FALSE
    /\ service_ready = FALSE
    /\ cpc = "idle"
    /\ pending = NoLine
    /\ written = 0
    /\ handled = 0
    /\ emitted = <<>>
    /\ last = NoLast
    /\ boot = [stt |-> "none", tts |-> "none"]
    /\ hist = NoHist
    /\ returns = <<>>
    /\ stopped = NoStop

\* print: the worker's stdout is a pipe when a client spawned the worker;
\* run on its own, it is a terminal that keeps nothing to be read.
Printed(lines) == IF process THEN stdout \o lines ELSE stdout

\* The outcomes that matter to the handler of `line` (the rest of the record
\* stays at a default the handler never reads).
EnvsFor(line, stt, tts) ==
    LET isStt == line.form = "object" /\ line.type = "transcribe"
                 /\ line.audio_data \notin {"", Absent}
        isTts == line.form = "object" /\ line.type = "tts"
        cold  == (isStt /\ ~stt) \/ (isTts /\ ~tts)
    IN  {e \in [warm    : IF cold THEN ToolOutcomes ELSE {"ok"},
                 wunlink : IF cold THEN UnlinkOutcomes ELSE {"ok"},
                 run     : IF isStt \/ isTts THEN ToolOutcomes ELSE {"ok"},
                 unlink  : IF isStt \/ isTts THEN UnlinkOutcomes ELSE {"ok"},
                 read    : IF isTts THEN ReadOutcomes ELSE {"samples"},
                 out     : IF isTts THEN ToolTexts ELSE {"plain"},
                 sttout  : IF isStt THEN SttTexts ELSE {"speech"}] :
            \* no clean-up after a run that raised; no read after a failed run
            /\ e.warm \in {"timeout", "oserror"} => e.wunlink = "ok"
            /\ e.run # "ok" => e.read = "samples" /\ e.sttout = "speech"}

DebugEnvs == [warm : {"ok"}, wunlink : {"ok"}, run : ToolOutcomes, unlink : UnlinkOutcomes,
              read : {"samples"}, out : ToolTexts, sttout : {"speech"}]
WarmupEnvs == [warm : ToolOutcomes, wunlink : UnlinkOutcomes, run : {"ok"}, unlink : {"ok"},
               read : {"samples"}, out : ToolTexts, sttout : {"speech"}]

\* ------------------------------------------------------------ worker: main()
\* lines 307-313: the service object, the banner, debug_tts_models
MainStart ==
    /\ wpc = "start"
    /\ \E env \in DebugEnvs :
          stdout' = Printed(Diag(0, "BaoAgent Service starting...")
                           \o Diag(0, "Commands: transcribe, tts, status, quit")
                           \o DebugTtsModels(env)
                           \o Diag(0, "Warming up models..."))
    /\ wpc' = "warmup_stt"
    /\ last' = LastOf("debug")
    /\ UNCHANGED <<stt_warmed_up, tts_warmed_up, handled, emitted, boot, hist>>
    /\ UNCHANGED <<stdin, stdinEOF, written>>
    /\ UNCHANGED clientVars
    /\ UNCHANGED sideVars
    /\ UNCHANGED command_line

\* What main keeps of the eager warm-up w of a model
Warmed(w, op, model) ==
    /\ stdout' = Printed(w.lines)
    /\ boot' = [boot EXCEPT ![model] = BoolStr(w.ok)]
    /\ hist' = [hist EXCEPT ![IF model = "stt" THEN "sttWarm" ELSE "ttsWarm"] =
                               @ \/ (w.tried /\ w.ok)]
    /\ last' = [LastOf(op) EXCEPT !.tried = model, !.toolOk = w.toolOk, !.warmOk = w.ok,
                                  !.left = w.left, !.failed = w.failed]

\* line 317: service.warmup_stt()
MainWarmupStt ==
    /\ wpc = "warmup_stt"
    /\ \E w \in {WarmupStt(stt_warmed_up, env, 0) : env \in WarmupEnvs} :
          /\ stt_warmed_up' = w.flag
          /\ Warmed(w, "warmup_stt", "stt")
    /\ wpc' = "warmup_tts"
    /\ UNCHANGED <<tts_warmed_up, handled, emitted>>
    /\ UNCHANGED <<stdin, stdinEOF, written>>
    /\ UNCHANGED clientVars
    /\ UNCHANGED sideVars
    /\ UNCHANGED command_line

\* line 318: service.warmup_tts()
MainWarmupTts ==
    /\ wpc = "warmup_tts"
    /\ \E w \in {WarmupTts(tts_warmed_up, env, 0) : env \in WarmupEnvs} :
          /\ tts_warmed_up' = w.flag
          /\ Warmed(w, "warmup_tts", "tts")
    /\ wpc' = "ready"
    /\ UNCHANGED <<stt_warmed_up, handled, emitted>>
    /\ UNCHANGED <<stdin, stdinEOF, written>>
    /\ UNCHANGED clientVars
    /\ UNCHANGED sideVars
    /\ UNCHANGED command_line

\* line 319: print("Service ready!")
MainReady ==
    /\ wpc = "ready"
    /\ stdout' = Printed(Diag(0, "Service ready!"))
    /\ wpc' = "loop"
    /\ last' = LastOf("ready")
    /\ UNCHANGED <<stt_warmed_up, tts_warmed_up, handled, emitted, boot, hist>>
    /\ UNCHANGED <<stdin, stdinEOF, written>>
    /\ UNCHANGED clientVars
    /\ UNCHANGED sideVars
    /\ UNCHANGED command_line

\* lines 330-332: what the loop does with the result r of process_command
\* on the line read: print(result)
Respond(r, out, line, id) ==
    /\ stt_warmed_up' = r.stt
    /\ tts_warmed_up' = r.tts
    /\ stdout' = Printed(r.lines \o out)
    /\ emitted' = emitted \o [i \in 1..Len(out) |-> [cmd |-> out[i].cmd, raw |-> out[i].raw]]
    /\ hist' = [sttCmdOk |-> hist.sttCmdOk
                             \/ (r.obj.type = "transcription_result"
                                 /\ r.obj.success = "true"),
                ttsCmdOk |-> hist.ttsCmdOk
                             \/ (r.obj.type = "tts_result" /\ r.obj.success = "true"),
                sttWarm  |-> hist.sttWarm \/ (r.tried = "stt" /\ r.warmOk),
                ttsWarm  |-> hist.ttsWarm \/ (r.tried = "tts" /\ r.warmOk),
                allValid |-> hist.allValid /\ ValidCommand(line)]
    /\ last' = [op |-> "command", id |-> id, line |-> line,
                sttBefore |-> stt_warmed_up, ttsBefore |-> tts_warmed_up,
                tried |-> r.tried,
                toolOk |-> r.toolOk,
                warmOk |-> r.warmOk, ran |-> r.ran,
                left |-> r.left, failed |-> r.failed,
                ret |-> r.ret, obj |-> r.obj]

\* an input() that is also called while the previous line is being handled
MainInputEager ==
    /\ wpc \in {"loop", "handling"}
    /\ stdin # <<>>
    /\ command_line' = Head(stdin)
    /\ stdin' = Tail(stdin)
    /\ wpc' = "handling"
    /\ last' = LastOf("input")
    /\ UNCHANGED <<stt_warmed_up, tts_warmed_up, handled, emitted, boot, hist>>
    /\ UNCHANGED <<stdinEOF, stdout, written>>
    /\ UNCHANGED clientVars
    /\ UNCHANGED sideVars

\* line 324: command_line = input().strip() returns the next line of stdin
MainInput ==
    /\ wpc = "loop"
    /\ stdin # <<>>
    /\ command_line' = Head(stdin)
    /\ stdin' = Tail(stdin)
    /\ wpc' = "handling"
    /\ last' = LastOf("input")
    /\ UNCHANGED <<stt_warmed_up, tts_warmed_up, handled, emitted, boot, hist>>
    /\ UNCHANGED <<stdinEOF, stdout, written>>
    /\ UNCHANGED clientVars
    /\ UNCHANGED sideVars

\* lines 326-332 on a line that is not quit: process_command, print(result),
\* and back to the head of the loop
MainCommand ==
    /\ wpc = "handling"
    /\ command_line.line.form # "quit"
    /\ \E r \in {ProcessCommand(command_line.line, stt_warmed_up, tts_warmed_up,
                                env, command_line.id) :
                   env \in EnvsFor(command_line.line, stt_warmed_up, tts_warmed_up)} :
          Respond(r, ResultLine(command_line.id, r), command_line.line, command_line.id)
    /\ wpc' = "loop"
    /\ handled' = handled + 1
    /\ UNCHANGED boot
    /\ UNCHANGED <<stdin, stdinEOF, written>>
    /\ UNCHANGED clientVars
    /\ UNCHANGED sideVars
    /\ UNCHANGED command_line

\* a worker that prints the notice and stays in its loop
MainQuitStays ==
    /\ wpc = "handling"
    /\ command_line.line.form = "quit"
    /\ stdout' = Printed(Diag(command_line.id, "Shutting down service..."))
    /\ wpc' = "loop"
    /\ last' = LastOf("quit")
    /\ UNCHANGED <<stt_warmed_up, tts_warmed_up, handled, emitted, boot, hist>>
    /\ UNCHANGED <<stdin, stdinEOF, written>>
    /\ UNCHANGED clientVars
    /\ UNCHANGED sideVars
    /\ UNCHANGED command_line

\* lines 326-328: the line is quit, whatever its case
MainQuit ==
    /\ wpc = "handling"
    /\ command_line.line.form = "quit"
    /\ stdout' = Printed(Diag(command_line.id, "Shutting down service..."))
    /\ wpc' = "exited"
    /\ last' = LastOf("quit")
    /\ UNCHANGED <<stt_warmed_up, tts_warmed_up, handled, emitted, boot, hist>>
    /\ UNCHANGED <<stdin, stdinEOF, written>>
    /\ UNCHANGED clientVars
    /\ UNCHANGED sideVars
    /\ UNCHANGED command_line

\* lines 334-336: input() raises EOFError
MainEOF ==
    /\ wpc = "loop"
    /\ stdin = <<>>
    /\ stdinEOF
    /\ stdout' = Printed(Diag(0, "EOF received, shutting down..."))
    /\ wpc' = "exited"
    /\ last' = LastOf("eof")
    /\ UNCHANGED <<stt_warmed_up, tts_warmed_up, handled, emitted, boot, hist>>
    /\ UNCHANGED <<stdin, stdinEOF, written>>
    /\ UNCHANGED clientVars
    /\ UNCHANGED sideVars
    /\ UNCHANGED command_line

Worker == MainStart \/ MainWarmupStt \/ MainWarmupTts \/ MainReady
          \/ MainInput \/ MainCommand \/ MainQuit \/ MainEOF

\* ------------------------------------------- the worker run on its own
\* Whoever holds the worker's stdin writes a line to it.
Feed ==
    /\ written < MaxFeed
    /\ ~stdinEOF
    /\ \E line \in CommandLines \cup {QuitLine} :
          stdin' = Append(stdin, Tagged(line, written + 1))
    /\ written' = written + 1
    /\ UNCHANGED <<stdinEOF, stdout>>
    /\ UNCHANGED workerVars
    /\ UNCHANGED clientVars
    /\ UNCHANGED sideVars

\* ... or closes it.
FeedEOF ==
    /\ ~stdinEOF
    /\ stdinEOF' = TRUE
    /\ UNCHANGED <<stdin, stdout, written>>
    /\ UNCHANGED workerVars
    /\ UNCHANGED clientVars
    /\ UNCHANGED sideVars

InitService == InitCommon /\ wpc = "start" /\ scan = NoScan /\ codec = NoCodec /\ ApiIdle
NextService == Worker \/ Feed \/ FeedEOF
SpecService == InitService /\ [][NextService]_vars

\* ------------------------------------------------------------ BaoAgentClient
\* What json.dumps(command) puts on a line is always a JSON document: the
\* commands of transcribe_audio, text_to_speech and get_status, and one
\* dictionary of another type.
ClientCommands ==
    {c \in CommandLines : /\ c.form = "object"
                          /\ c.type \in {"transcribe", "tts", "status", "bogus"}
                          /\ c.audio_data \in {"pcm", "", Absent}
                          /\ c.type = "transcribe" => c.audio_data # Absent
                          /\ c.type = "tts" => c.text # Absent}

\* a start_service that takes any line for the marker
HasReadyMarkerAny(l) == TRUE
\* "Service ready!" in line
HasReadyMarker(l) == l.pre = "Service ready!" \/ l.raw = "Service ready!"

\* Index of the first line of `lines` from position i on that satisfies
\* ParsesAsJSON (resp. HasReadyMarker); Len(lines) + 1 if there is none.
RECURSIVE FirstJson(_, _)
FirstJson(lines, i) ==
    IF i > Len(lines) THEN i
    ELSE IF ~IsBlank(lines[i]) /\ ParsesAsJSON(lines[i]) THEN i
    ELSE FirstJson(lines, i + 1)

RECURSIVE FirstReady(_, _)
FirstReady(lines, i) ==
    IF i > Len(lines) THEN i
    ELSE IF HasReadyMarker(lines[i]) THEN i
    ELSE FirstReady(lines, i + 1)

\* subprocess.Popen of start_service: a fresh worker with fresh pipes
Popen ==
    /\ process' = TRUE
    /\ wpc' = "start"
    /\ command_line' = Tagged(NoLine, 0)
    /\ stt_warmed_up' = FALSE
    /\ tts_warmed_up' = FALSE
    /\ stdin' = <<>>
    /\ stdinEOF' = FALSE
    /\ stdout' = <<>>
    /\ handled' = 0
    /\ emitted' = <<>>
    /\ last' = NoLast
    /\ boot' = [stt |-> "none", tts |-> "none"]
    /\ hist' = NoHist

\* start_service that spawns a worker whether or not a handle is held
StartServiceAgain ==
    /\ cpc = "idle"
    /\ Popen
    /\ cpc' = "starting"
    /\ stopped' = NoStop
    /\ UNCHANGED <<service_ready, pending, returns, written>>
    /\ UNCHANGED sideVars

\* start_service called by the user of the client (also __enter__)
StartService ==
    /\ cpc = "idle"
    /\ ~process
    /\ Popen
    /\ cpc' = "starting"
    /\ stopped' = NoStop
    /\ UNCHANGED <<service_ready, pending, returns, written>>
    /\ UNCHANGED sideVars

\* send_command, lines 81-83: any exception ends the call with None
Failure == [call |-> 0, origin |-> "exception", cmd |-> 0, type |-> "None"]

\* start_service, lines 35-44: read up to the line carrying the marker.  When
\* the call came from send_command, the command is written next (lines 62-63).
StartServiceRead ==
    /\ cpc = "starting"
    /\ stdout # <<>>
    /\ LET k == FirstReady(stdout, 1)
       IN  /\ stdout' = SubSeq(stdout, k + 1, Len(stdout))
           /\ IF k > Len(stdout)
              THEN UNCHANGED <<service_ready, cpc, pending, stdin, written, returns>>
              ELSE /\ service_ready' = TRUE
                   /\ IF pending = NoLine
                      THEN /\ cpc' = "idle"
                           /\ UNCHANGED <<pending, stdin, written, returns>>
                      ELSE IF wpc = "exited"
                      THEN \* the write meets a closed pipe (lines 81-83)
                           /\ cpc' = "idle"
                           /\ pending' = NoLine
                           /\ returns' = Append(returns, Failure)
                           /\ UNCHANGED <<stdin, written>>
                      ELSE /\ cpc' = "waiting"
                           /\ stdin' = Append(stdin, Tagged(pending, written + 1))
                           /\ written' = written + 1
                           /\ UNCHANGED <<pending, returns>>
    /\ UNCHANGED <<process, stopped, stdinEOF>>
    /\ UNCHANGED workerVars
    /\ UNCHANGED sideVars

\* History of one send_command call: the tag of the command it wrote and,
\* of the line it returned, where the line came from and what it parses to.
Returned(call, l) ==
    [call |-> call, origin |-> l.origin, cmd |-> l.cmd, type |-> l.obj.type]

\* send_command, lines 57-63 (the write reaches a worker that is alive)
SendCommand ==
    /\ cpc = "idle"
    /\ Len(returns) < MaxCalls
    /\ stopped' = NoStop
    /\ \E c \in ClientCommands :
          /\ pending' = c
          /\ IF ~service_ready /\ ~process
             THEN /\ Popen
                  /\ cpc' = "starting"
                  /\ UNCHANGED <<service_ready, returns, written>>
             ELSE /\ wpc # "exited"
                  /\ stdin' = Append(stdin, Tagged(c, written + 1))
                  /\ written' = written + 1
                  /\ cpc' = "waiting"
                  /\ UNCHANGED <<process, service_ready, returns, stdinEOF, stdout>>
                  /\ UNCHANGED workerVars
    /\ UNCHANGED sideVars

\* send_command, lines 66-79: read up to the first line that parses as JSON
\* and return what it parses to
SendCommandRead ==
    /\ cpc = "waiting"
    /\ stdout # <<>>
    /\ LET k == FirstJson(stdout, 1)
       IN  /\ stdout' = SubSeq(stdout, k + 1, Len(stdout))
           /\ IF k > Len(stdout)
              THEN UNCHANGED <<cpc, pending, returns>>
              ELSE /\ returns' = Append(returns, Returned(written, stdout[k]))
                   /\ cpc' = "idle"
                   /\ pending' = NoLine
    /\ UNCHANGED <<process, service_ready, stopped, stdin, stdinEOF, written>>
    /\ UNCHANGED workerVars
    /\ UNCHANGED sideVars

\* stop_service, lines 48-50: write quit and flush (to a worker that is alive)
StopService ==
    /\ cpc = "idle"
    /\ process
    /\ wpc # "exited"
    /\ stdin' = Append(stdin, Tagged(QuitLine, 0))
    /\ cpc' = "stopping"
    /\ stopped' = NoStop
    /\ UNCHANGED <<process, service_ready, pending, returns, stdinEOF, stdout, written>>
    /\ UNCHANGED workerVars
    /\ UNCHANGED sideVars

\* stop_service, lines 51-53: wait() returns once the worker has exited
StopServiceWait ==
    /\ cpc = "stopping"
    /\ wpc = "exited"
    /\ process' = FALSE
    /\ service_ready' = FALSE
    /\ cpc' = "idle"
    /\ wpc' = "off"
    /\ stopped' = StopOutcome(TRUE, TRUE, FALSE)
    /\ UNCHANGED <<pending, returns>>
    /\ UNCHANGED pipeVars
    /\ UNCHANGED <<stt_warmed_up, tts_warmed_up, handled, emitted, last, boot, hist>>
    /\ UNCHANGED sideVars
    /\ UNCHANGED command_line

\* stop_service, line 48: the client holds no process, nothing is done
StopServiceIdle ==
    /\ cpc = "idle"
    /\ ~process
    /\ stopped' = StopOutcome(FALSE, FALSE, FALSE)
    /\ UNCHANGED <<process, service_ready, cpc, pending, returns>>
    /\ UNCHANGED pipeVars
    /\ UNCHANGED workerVars
    /\ UNCHANGED sideVars

Client == StartService \/ StartServiceRead \/ SendCommand \/ SendCommandRead
          \/ StopService \/ StopServiceWait \/ StopServiceIdle

\* The client keeps the worker's stdin open for as long as it holds the
\* process, so the worker of a session never meets the end of its input.
WorkerInSession == MainStart \/ MainWarmupStt \/ MainWarmupTts \/ MainReady
                   \/ MainInput \/ MainCommand \/ MainQuit

Init == InitCommon /\ wpc = "off" /\ scan = NoScan /\ codec = NoCodec /\ ApiIdle
Next == WorkerInSession \/ Client
Spec == Init /\ [][Next]_vars

\* ------------------------------------------- a worker that dies in a session
\* The worker process is killed from outside (a signal, the OOM killer):
\* it stops where it is; what it had printed stays readable in the pipe.
WorkerDies ==
    /\ process
    /\ wpc \in {"start", "warmup_stt", "warmup_tts", "ready", "loop", "handling"}
    /\ wpc' = "exited"
    /\ last' = LastOf("killed")
    /\ UNCHANGED <<stt_warmed_up, tts_warmed_up, handled, emitted, boot, hist>>
    /\ UNCHANGED pipeVars
    /\ UNCHANGED clientVars
    /\ UNCHANGED sideVars
    /\ UNCHANGED command_line

\* stop_service, lines 48-50, holding the handle of a worker that has
\* exited: the write to its stdin raises BrokenPipeError, which nothing
\* catches; lines 51-53 are not reached.
StopServiceBroken ==
    /\ cpc = "idle"
    /\ process
    /\ wpc = "exited"
    /\ stopped' = StopOutcome(FALSE, TRUE, TRUE)
    /\ UNCHANGED <<process, service_ready, cpc, pending, returns>>
    /\ UNCHANGED pipeVars
    /\ UNCHANGED workerVars
    /\ UNCHANGED sideVars

\* send_command, lines 60-63 and 81-83, holding the handle of a worker that
\* has exited: the write raises, the except clause returns None.
SendCommandBroken ==
    /\ cpc = "idle"
    /\ process
    /\ service_ready
    /\ wpc = "exited"
    /\ Len(returns) < MaxCalls
    /\ returns' = Append(returns, Failure)
    /\ stopped' = NoStop
    /\ UNCHANGED <<process, service_ready, cpc, pending>>
    /\ UNCHANGED pipeVars
    /\ UNCHANGED workerVars
    /\ UNCHANGED sideVars

ClientFaulty == Client \/ StopServiceBroken \/ SendCommandBroken
NextFaulty == WorkerInSession \/ WorkerDies \/ ClientFaulty
SpecFaulty == Init /\ [][NextFaulty]_vars

\* ------------------------------------------------------------- scheduling
\* Client and worker are two operating-system processes: each takes its
\* next step whenever it can.  Nothing obliges the user of the client to
\* make a call, nor the environment to kill.
\* What a MainCommand step does to the worker's position: the handler ends
\* and main is back at the head of its loop.
MainCommandEnds ==
    /\ wpc = "handling"
    /\ command_line.line.form # "quit"
    /\ wpc' = "loop"
WorkerFair ==
    /\ WF_vars(MainStart) /\ WF_vars(MainWarmupStt) /\ WF_vars(MainWarmupTts)
    /\ WF_vars(MainReady) /\ WF_vars(MainInput) /\ WF_vars(MainQuit)
    /\ WF_wpc(MainCommandEnds)
ClientFair ==
    WF_vars(StartServiceRead) /\ WF_vars(SendCommandRead) /\ WF_vars(StopServiceWait)
SpecLive == Spec /\ WorkerFair /\ ClientFair
SpecFaultyLive == SpecFaulty /\ WorkerFair /\ ClientFair

\* ------------------------------------------- the transcript filter on its own
\* Every output of the tool of at most MaxLines lines.
ScanInputs == UNION {[1..n -> ScanLines] : n \in 1..MaxLines}

\* transcribe_audio, lines 117-141, applied to the captured stdout
Extract ==
    /\ ~scan.done
    /\ scan' = [scan EXCEPT !.transcription = ExtractTranscription(scan.stdout_lines),
                            !.done = TRUE]
    /\ UNCHANGED <<workerVars, pipeVars, clientVars>>
    /\ UNCHANGED <<codec, apiVars>>

InitExtract ==
    /\ InitCommon
    /\ wpc = "off"
    /\ codec = NoCodec
    /\ ApiIdle
    /\ scan \in {[stdout_lines |-> l, transcription |-> "", done |-> FALSE] : l \in ScanInputs}
NextExtract == Extract
SpecExtract == InitExtract /\ [][NextExtract]_vars

\* ================================================================== claims
LastIsCommand == last.op = "command" /\ last.line.form = "object"
LastIsTranscribe == LastIsCommand /\ last.line.type = "transcribe"
LastIsTts == LastIsCommand /\ last.line.type = "tts"
LastIsStatus == LastIsCommand /\ last.line.type = "status"

\* C1: as long as every line the worker has read is a valid command
\* (transcribe, tts, status), the main loop has emitted exactly one response
\* line per command read, each the serialisation of a response object, in
\* the order of the commands.
C1_OneResponsePerCommand ==
    hist.allValid =>
        /\ Len(emitted) = handled
        /\ \A i \in 1..Len(emitted) : emitted[i].cmd = i /\ emitted[i].raw = Dumped

\* C2: whatever a send_command call returns is the line the dispatcher
\* printed as the result of the command that very call wrote: never a
\* diagnostic line, never the result of another command.
C2_ReturnIsOwnResponse ==
    \A i \in 1..Len(returns) :
        returns[i].origin = "result" /\ returns[i].cmd = returns[i].call

C4_FlagSetOnlyByToolSuccess ==
    /\ (~last.sttBefore /\ stt_warmed_up) => (last.tried = "stt" /\ last.toolOk)
    /\ (~last.ttsBefore /\ tts_warmed_up) => (last.tried = "tts" /\ last.toolOk)

C6_FlagsMonotonic ==
    [][(stt_warmed_up => stt_warmed_up') /\ (tts_warmed_up => tts_warmed_up')]_vars

\* a transcription fails on a warmed-up model and the flag stays
C6_Witness ==
    /\ LastIsTranscribe
    /\ last.sttBefore
    /\ last.ran
    /\ last.obj.success = "false"
    /\ stt_warmed_up

\* C7: a speech-to-text warm-up or command leaves tts_warmed_up as it was,
\* and a text-to-speech warm-up or command leaves stt_warmed_up as it was.
C7_ModelsIndependent ==
    /\ (last.op = "warmup_stt" \/ LastIsTranscribe) => tts_warmed_up = last.ttsBefore
    /\ (last.op = "warmup_tts" \/ LastIsTts) => stt_warmed_up = last.sttBefore

\* a transcribe command warms speech-to-text up while text-to-speech is cold
C7_Witness ==
    /\ LastIsTranscribe
    /\ last.tried = "stt"
    /\ last.warmOk
    /\ stt_warmed_up
    /\ ~tts_warmed_up

\* C8 (as stated): a status that is the first command of a worker reports
\* both models cold.
C8_FirstStatusCold ==
    (LastIsStatus /\ handled = 1) =>
        (last.obj.stt_warmed_up = "false" /\ last.obj.tts_warmed_up = "false")

\* C8 (amended): a status that is the first command of a worker reports
\* each model warmed up exactly when the start-up call of its warm-up
\* returned True; both are reported cold only when both start-up warm-ups
\* failed.
C8_FirstStatusReportsStartup ==
    (LastIsStatus /\ handled = 1) =>
        (last.obj.stt_warmed_up = boot.stt /\ last.obj.tts_warmed_up = boot.tts)

C8_Witness ==
    /\ LastIsStatus
    /\ handled = 1
    /\ last.obj.stt_warmed_up = "true"
    /\ last.obj.tts_warmed_up = "false"

C10_TtsResultShape ==
    LastIsTts =>
        /\ last.ret = "json"
        /\ last.obj.type = "tts_result"
        /\ \/ /\ last.obj.success = "true"
              /\ last.obj.audio_data \notin {"", Absent}
              /\ last.obj.sample_rate = 24000
              /\ last.obj.error = Absent
           \/ /\ last.obj.success = "false"
              /\ last.obj.error \notin {"", Absent}
              /\ last.obj.audio_data = Absent

\* C11: once a transcribe or tts command has been answered, whatever its
\* outcome, none of the temporary files the call created (those of a
\* warm-up it triggered included) is left on disk.
C11_NoTempFileLeft ==
    (LastIsTranscribe \/ LastIsTts) => last.left = 0

\* The line the worker handled last is not a command it knows: not JSON, a
\* JSON document without a type field, or an object of an unrecognized type.
LastIsMalformed ==
    /\ last.op = "command"
    /\ \/ last.line.form \in {"badjson", "nonobject"}
       \/ last.line.form = "object" /\ last.line.type \notin {"transcribe", "tts", "status"}

\* C12: a line that is not valid JSON, or is JSON without a type field, or
\* has an unrecognized type, is answered with an object of type error that
\* carries an error message, and the loop goes on to read the next line.
C12_MalformedAnsweredWithError ==
    LastIsMalformed =>
        /\ last.ret = "json"
        /\ last.obj.type = "error"
        /\ last.obj.error \notin {"", Absent}
        /\ Len(emitted) > 0
        /\ emitted[Len(emitted)] = [cmd |-> last.id, raw |-> Dumped]
        /\ wpc = "loop"

C12_Witness ==
    /\ LastIsMalformed
    /\ last.line.form = "badjson"
    /\ handled = 2
    /\ last.obj.type = "error"

RECURSIVE LastSuch(_, _)
\* The greatest i <= n with ok[i], 0 if there is none.
LastSuch(ok, n) == IF n = 0 THEN 0 ELSE IF ok[n] THEN n ELSE LastSuch(ok, n - 1)

\* C20 (as stated): the transcript is the last line of the tool's output
\* that is non-empty and matches none of the diagnostic patterns, and the
\* empty string when there is no such line.
C20_TranscriptIsLastPlainLine ==
    scan.done /\ scan.stdout_lines # <<>> =>
        LET lines == scan.stdout_lines
            k == LastSuch([i \in 1..Len(lines) |-> lines[i] # "" /\ ~IsDebugLine(lines[i])],
                          Len(lines))
        IN  scan.transcription = (IF k = 0 THEN "" ELSE lines[k])

\* C20 (amended): every line is first stripped of the blanks around it; the
\* transcript is the stripped form of the last line whose stripped form is
\* non-empty and matches none of the diagnostic patterns, and the empty
\* string when there is no such line.
C20_TranscriptIsLastStrippedLine ==
    scan.done /\ scan.stdout_lines # <<>> =>
        LET lines == scan.stdout_lines
            k == LastSuch([i \in 1..Len(lines) |->
                              Strip(lines[i]) # "" /\ ~IsDebugLine(Strip(lines[i]))],
                          Len(lines))
        IN  scan.transcription = (IF k = 0 THEN "" ELSE Strip(lines[k]))

C20_Witness ==
    /\ scan.done
    /\ scan.stdout_lines = <<"hello world", " good morning ", " {">>
    /\ scan.transcription = "good morning"

\* C17: a command during whose handling an external tool run (the real run
\* or the warm-up it triggered) timed out, exited with a non-zero status or
\* could not be started is answered with success:false, and the worker goes
\* on to read the next command.
C17_ToolFailureFailsRequest ==
    ((LastIsTranscribe \/ LastIsTts) /\ last.failed) =>
        /\ last.ret = "json"
        /\ last.obj.success = "false"
        /\ wpc = "loop"

\* send_command is in its read loop, the worker has exited and nothing it
\* left in the pipe parses as JSON.
WaitsOnDeadWorker ==
    /\ cpc = "waiting"
    /\ wpc = "exited"
    /\ FirstJson(stdout, 1) > Len(stdout)

\* C13: when the worker exits (its stdout reaches end-of-stream) before a
\* line that parses as JSON has arrived, send_command ends and reports a
\* failure instead of waiting on.
C13_DeadWorkerEndsCall ==
    WaitsOnDeadWorker ~>
        (cpc = "idle" /\ returns # <<>> /\ returns[Len(returns)].origin = "exception")

\* C14: the step in which the worker reads quit emits no response and
\* handles no command, the worker has exited after it and handles and emits
\* nothing from then on, and the wait of stop_service returns: the call ends
\* without an exception, the client holding no process.
C14_QuitEndsWorker ==
    /\ [][(last'.op = "quit" /\ last' # last) =>
             (wpc' = "exited" /\ handled' = handled /\ emitted' = emitted)]_vars
    /\ [][(wpc = "exited" /\ wpc' \in {"exited", "off"}) =>
             (handled' = handled /\ emitted' = emitted)]_vars
    /\ (cpc = "stopping") ~>
          (cpc = "idle" /\ ~process /\ stopped = StopOutcome(TRUE, TRUE, FALSE))

C14_Witness ==
    /\ last.op = "quit"
    /\ wpc = "exited"
    /\ cpc = "stopping"
    /\ handled = 2

\* C15: a stop_service call that has ended raised nothing and leaves the
\* client without process handle and with its ready flag false; called when
\* no worker process was running it wrote nothing; and a stop_service right
\* after a stop_service changes nothing.
C15_StopIdempotent ==
    /\ []((stopped.op = "stop" /\ cpc = "idle") =>
             /\ ~stopped.raised
             /\ ~process
             /\ ~service_ready
             /\ ~stopped.running => ~stopped.wrote)
    /\ [][(stopped.op = "stop" /\ cpc = "idle" /\ stopped'.op = "stop" /\ cpc' = "idle") =>
             UNCHANGED <<process, service_ready, pending, returns, workerVars, pipeVars>>]_vars

\* C16: once the scope that entered the client (start_service) has been
\* left (stop_service has ended, by returning or by raising), the worker
\* process has terminated and has been waited for.
C16_ScopeExitReapsWorker ==
    (stopped.op = "stop" /\ cpc = "idle") => (~process /\ wpc = "off")

\* C19: whenever start_service has returned for the process the client
\* holds, the ready flag is true and the marker line has been read, so the
\* worker is past its start-up; and no line the worker printed before the
\* marker (cmd = 0) is returned by a send_command call.
C19_StartReturnsAfterMarker ==
    /\ (process /\ cpc # "starting") => (service_ready /\ wpc \in {"loop", "handling", "exited"})
    /\ \A i \in 1..Len(returns) : returns[i].cmd # 0

C19_Witness ==
    /\ process
    /\ service_ready
    /\ cpc = "idle"
    /\ Len(returns) = 2
    /\ returns[1].origin = "diag"

\* The lines the worker has taken off its stdin and is done with: those it
\* answered with a result line, and the quit line it exited on.
DoneWith == Len(emitted) + (IF wpc = "exited" /\ last.op = "quit" THEN 1 ELSE 0)

\* C18: of the lines written to the worker's stdin, all but at most one are
\* either still unread or done with; one line is in flight exactly while
\* main is between input() and the print of its result, which is the only
\* time a handler and its tool runs (one after the other, inside one
\* handler) execute; back at input(), every line read has its result line.
C18_OneCommandInFlight ==
    /\ written \in {Len(stdin) + DoneWith, Len(stdin) + DoneWith + 1}
    /\ (written = Len(stdin) + DoneWith + 1) <=> (wpc = "handling")
    /\ wpc = "loop" => Len(emitted) = handled

C18_Witness ==
    /\ wpc = "handling"
    /\ command_line.line.type = "tts"
    /\ handled = 1
    /\ written = 2
    /\ stdin = <<>>

\* C24: for every line it is given, process_command returns a string that
\* parses as a JSON object with a type field; a transcribe command whose
\* audio_data is absent or empty is no exception.
C24_EveryLineGetsTypedObject ==
    last.op = "command" =>
        /\ last.ret = "json"
        /\ last.obj.type # Absent

\* C26: a transcription_result has success true exactly when its text is not
\* null: a run of the tool that succeeded gives success true (with the empty
\* text when it printed no transcript), and a warm-up failure, a timeout or
\* a failure of the tool gives success false with the text null.
C26_SuccessIffText ==
    (LastIsTranscribe /\ last.ret = "json" /\ last.obj.type = "transcription_result") =>
        /\ last.obj.success \in {"true", "false"}
        /\ (last.obj.success = "true") <=> (last.obj.text # "null")
        /\ (last.ran /\ ~last.failed) => last.obj.success = "true"
        /\ (last.failed \/ (last.tried # "none" /\ ~last.warmOk)) =>
                (last.obj.success = "false" /\ last.obj.text = "null")

\* C29: the status command, and a command answered with an error because it
\* is not valid JSON or has no type or an unknown one, leave both flags as
\* they were, run no external tool and create no temporary file.
C29_StatusAndErrorsTouchNothing ==
    (LastIsStatus \/ LastIsMalformed) =>
        /\ stt_warmed_up = last.sttBefore
        /\ tts_warmed_up = last.ttsBefore
        /\ last.tried = "none"
        /\ ~last.ran
        /\ ~last.toolOk
        /\ last.left = 0

C29_Witness ==
    /\ LastIsMalformed
    /\ last.line.form = "object"
    /\ last.obj.type = "error"
    /\ hist.sttWarm
    /\ ~tts_warmed_up
    /\ handled = 2

\* The lines a tool can write to its diagnostic stream.
DiagnosticExcerpts ==
    UNION {{ToolLines(t)[i] : i \in 1..Len(ToolLines(t))} : t \in ToolTexts}

\* C22: when the run of the synthesis tool fails (non-zero exit, timeout, or
\* the invocation raising), the failure returned to the caller carries an
\* excerpt of what the tool wrote to its diagnostic stream.
C22_TtsFailureCarriesDiagnostics ==
    (LastIsTts /\ last.ran /\ last.failed /\ last.ret = "json"
        /\ last.obj.type = "tts_result") =>
        /\ last.obj.success = "false"
        /\ last.obj.error \in DiagnosticExcerpts

\* The worker on its own, with its steps scheduled fairly.
SpecServiceLive == SpecService /\ WorkerFair

\* C27: whatever the debug run and the two eager warm-ups do (success,
\* non-zero exit, timeout, exception), startup goes on to print
\* 'Service ready!' and to enter the read loop; a warm-up that failed leaves
\* its flag false, and the other warm-up is attempted all the same.
C27_StartupAlwaysReady ==
    /\ (wpc = "start") ~> (wpc = "loop")
    /\ [](wpc = "loop" => boot.stt # "none" /\ boot.tts # "none")
    /\ []((last.op = "warmup_stt" /\ last.failed) => ~stt_warmed_up)
    /\ []((last.op = "warmup_tts" /\ last.failed) => ~tts_warmed_up)

\* C28: in every state of the client the ready flag is set only while a
\* process handle is held, and start_service spawns a worker only when no
\* handle is held and no earlier worker is left un-waited: there is at most
\* one worker per client.
C28_OneWorkerPerClient ==
    /\ [](service_ready => process)
    /\ [][(cpc = "idle" /\ cpc' = "starting") => (~process /\ wpc = "off")]_vars

C28_Witness ==
    /\ cpc = "starting"
    /\ process
    /\ Len(returns) >= 1
    /\ stopped = NoStop

\* The client is blocked in readline with nothing to read while the worker
\* is blocked in input() with nothing to read.
MutualWait ==
    /\ cpc = "waiting"
    /\ stdout = <<>>
    /\ wpc = "loop"
    /\ stdin = <<>>
    /\ ~stdinEOF

\* C25: while the worker stays alive and every tool run ends or times out,
\* the client is never blocked waiting for a response while the worker is
\* blocked waiting for the next command, and every send_command returns.
C25_SendCommandReturns ==
    /\ [](~MutualWait)
    /\ (cpc = "waiting") ~> (cpc = "idle")

\* ===================================================== the audio transport
\* Bytes a buffer is made of, and the buffers handed to the transport.
ByteValues == {0, 1, 127, 128, 255}
Buffers == UNION {[1..n -> ByteValues] : n \in 0..MaxBytes}

\* Base64 text as the sequence of its characters: 0..63 is the position of
\* a character in the alphabet, Pad is '='.
Pad == 64

\* base64.b64encode: three bytes give four characters; a last group of one
\* or two bytes is filled up with zero bits and '='.
RECURSIVE B64Encode(_)
B64Encode(b) ==
    IF Len(b) = 0 THEN <<>>
    ELSE IF Len(b) = 1
    THEN <<b[1] \div 4, (b[1] % 4) * 16, Pad, Pad>>
    ELSE IF Len(b) = 2
    THEN <<b[1] \div 4, (b[1] % 4) * 16 + b[2] \div 16, (b[2] % 16) * 4, Pad>>
    ELSE <<b[1] \div 4, (b[1] % 4) * 16 + b[2] \div 16,
           (b[2] % 16) * 4 + b[3] \div 64, b[3] % 64>>
         \o B64Encode(SubSeq(b, 4, Len(b)))

\* a decoder that drops a last group that is padded
RECURSIVE B64DecodeWholeGroups(_)
B64DecodeWholeGroups(s) ==
    IF Len(s) < 4 \/ s[3] = Pad \/ s[4] = Pad THEN <<>>
    ELSE <<s[1] * 4 + s[2] \div 16, (s[2] % 16) * 16 + s[3] \div 4, (s[3] % 4) * 64 + s[4]>>
         \o B64DecodeWholeGroups(SubSeq(s, 5, Len(s)))

\* base64.b64decode: four characters give three bytes; a group ending in
\* '==' gives one byte and a group ending in '=' gives two.  (Text whose
\* length is not a multiple of four raises binascii.Error: b64encode never
\* produces it, and it decodes to nothing here.)
RECURSIVE B64Decode(_)
B64Decode(s) ==
    IF Len(s) < 4 THEN <<>>
    ELSE IF s[3] = Pad THEN <<s[1] * 4 + s[2] \div 16>>
    ELSE IF s[4] = Pad THEN <<s[1] * 4 + s[2] \div 16, (s[2] % 16) * 16 + s[3] \div 4>>
    ELSE <<s[1] * 4 + s[2] \div 16, (s[2] % 16) * 16 + s[3] \div 4, (s[3] % 4) * 64 + s[4]>>
         \o B64Decode(SubSeq(s, 5, Len(s)))

\* the sender: audio_b64 = base64.b64encode(audio_bytes).decode('utf-8')
Encode ==
    /\ codec.step = "raw"
    /\ codec' = [codec EXCEPT !.audio_b64 = B64Encode(codec.buffer), !.step = "encoded"]
    /\ UNCHANGED <<workerVars, pipeVars, clientVars, scan, apiVars>>

\* the receiver: audio_bytes = base64.b64decode(audio_b64)
Decode ==
    /\ codec.step = "encoded"
    /\ codec' = [codec EXCEPT !.audio_bytes = B64Decode(codec.audio_b64), !.step = "decoded"]
    /\ UNCHANGED <<workerVars, pipeVars, clientVars, scan, apiVars>>

InitCodec ==
    /\ InitCommon
    /\ wpc = "off"
    /\ scan = NoScan
    /\ ApiIdle
    /\ codec \in {[buffer |-> b, audio_b64 |-> <<>>, audio_bytes |-> <<>>, step |-> "raw"] :
                    b \in Buffers}
NextCodec == Encode \/ Decode
SpecCodec == InitCodec /\ [][NextCodec]_vars

Falsy(x) == x.kind = "absent" \/ x.v \in {"", "0"}

\* The bodies the clients of the endpoint send.
PhoneValues == {JStr("555-0001"), JStr("555-0002"), JStr("call me"), JNum("5550001")}
NameValues == {JStr("Ann"), JAbsent}
DateValues == {JStr("2025-03-05"), JStr("2025-3-5"), JStr("invalid-date"), JAbsent}
TimeValues == {JStr("09:30"), JStr("9:5"), JStr("25:00")}
Bodies ==
    [customer_phone : PhoneValues, customer_name : NameValues,
     appointment_date : DateValues, appointment_time : TimeValues,
     origin_address : {JStr("1 Main St")}, destination_address : {JStr("2 Oak Ave")}]

\* The formats the request schema documents: YYYY-MM-DD and HH:MM.
IsYYYYMMDD(x) == x = JStr("2025-03-05")
IsHHMM(x) == x = JStr("09:30")

\* datetime.strptime(text, '%Y-%m-%d') and strptime(text, '%H:%M') return
\* for these texts and raise ValueError for the others: a month, day, hour
\* or minute of one digit is accepted.
StrptimeAccepts == {"2025-03-05", "2025-3-5", "09:30", "9:5"}

\* str.replace('-', '')...isdigit() of the phone check
DigitsOnceStripped == {"555-0001", "555-0002"}

\* validate_request_data: the error response for missing fields, if any
MissingFields(data) == {f \in RequiredFields : Falsy(data[f])}

\* CreateAppointmentRequest.validate, line 80: a phone that is a number has
\* no replace(), and the call raises AttributeError
SchemaRaises(data) == data.customer_phone.kind = "num"

\* CreateAppointmentRequest.validate: the fields it reports
SchemaErrors(data) ==
    {f \in RequiredFields : Falsy(data[f])}
    \cup (IF data.appointment_date.v \in StrptimeAccepts THEN {} ELSE {"appointment_date"})
    \cup (IF data.appointment_time.v \in StrptimeAccepts THEN {} ELSE {"appointment_time"})
    \cup (IF data.customer_phone.v \in DigitsOnceStripped THEN {} ELSE {"customer_phone"})

\* create_appointment, lines 135-155: the status it answers with before any
\* request to the datastore (500 is the server's answer to an exception
\* nothing catches), or 0 when the body passes
Rejection(data) ==
    IF MissingFields(data) # {} THEN 400
    ELSE IF SchemaRaises(data) THEN 500
    ELSE IF SchemaErrors(data) # {} THEN 400
    ELSE 0

\* next((c for c in customers if c['phone'] == phone), None): the id of the
\* first customer with the phone, 0 for None
RECURSIVE FirstWithPhone(_, _, _)
FirstWithPhone(list, phone, i) ==
    IF i > Len(list) THEN 0
    ELSE IF list[i] = phone THEN i
    ELSE FirstWithPhone(list, phone, i + 1)

\* What a request to the datastore can come to: an answer, or a
\* requests.RequestException (no connection, timeout, error status).
StoreOutcomes == {"ok", "RequestException"}

\* a thread of the server takes a request and validates its body
Receive(h) ==
    /\ handlers[h].pc = "idle"
    /\ \E data \in Bodies :
          handlers' = [handlers EXCEPT ![h] =
              IF Rejection(data) # 0
              THEN [@ EXCEPT !.pc = "done", !.data = data, !.status = Rejection(data)]
              ELSE [@ EXCEPT !.pc = "validated", !.data = data]]
    /\ UNCHANGED <<customers, appointments>>
    /\ UNCHANGED <<workerVars, pipeVars, clientVars, scan, codec>>

\* lines 159-166: GET /customers and the search of the list it returned
GetCustomers(h) ==
    /\ handlers[h].pc = "validated"
    /\ \E o \in StoreOutcomes :
          handlers' = [handlers EXCEPT ![h] =
              IF o # "ok"
              THEN [@ EXCEPT !.pc = "done", !.status = 500, !.calls = @ + 1]
              ELSE IF FirstWithPhone(customers, handlers[h].data.customer_phone.v, 1) # 0
              THEN [@ EXCEPT !.pc = "booking", !.calls = @ + 1,
                             !.customer_id = FirstWithPhone(customers,
                                                handlers[h].data.customer_phone.v, 1)]
              ELSE [@ EXCEPT !.pc = "creating", !.calls = @ + 1]]
    /\ UNCHANGED <<customers, appointments>>
    /\ UNCHANGED <<workerVars, pipeVars, clientVars, scan, codec>>

\* lines 167-177: POST /customers for a phone the list did not have
PostCustomer(h) ==
    /\ handlers[h].pc = "creating"
    /\ \E o \in StoreOutcomes :
          IF o # "ok"
          THEN /\ handlers' = [handlers EXCEPT ![h] =
                                  [@ EXCEPT !.pc = "done", !.status = 500, !.calls = @ + 1]]
               /\ UNCHANGED customers
          ELSE /\ customers' = Append(customers, handlers[h].data.customer_phone.v)
               /\ handlers' = [handlers EXCEPT ![h] =
                                  [@ EXCEPT !.pc = "booking", !.calls = @ + 1,
                                            !.customer_id = Len(customers) + 1]]
    /\ UNCHANGED appointments
    /\ UNCHANGED <<workerVars, pipeVars, clientVars, scan, codec>>

\* lines 183-204: POST /appointments, then the 201 response
PostAppointment(h) ==
    /\ handlers[h].pc = "booking"
    /\ \E o \in StoreOutcomes :
          IF o # "ok"
          THEN /\ handlers' = [handlers EXCEPT ![h] =
                                  [@ EXCEPT !.pc = "done", !.status = 500, !.calls = @ + 1]]
               /\ UNCHANGED appointments
          ELSE /\ appointments' = Append(appointments, handlers[h].customer_id)
               /\ handlers' = [handlers EXCEPT ![h] =
                                  [@ EXCEPT !.pc = "done", !.status = 201, !.calls = @ + 1]]
    /\ UNCHANGED customers
    /\ UNCHANGED <<workerVars, pipeVars, clientVars, scan, codec>>

\* The datastore at the start: empty, or holding one customer already.
StoredAtStart == {<<>>, <<"555-0001">>}

InitApi ==
    /\ InitCommon
    /\ wpc = "off"
    /\ scan = NoScan
    /\ codec = NoCodec
    /\ handlers = [h \in Handlers |-> IdleHandler]
    /\ customers \in StoredAtStart
    /\ appointments = <<>>
NextApi ==
    \E h \in Handlers : Receive(h) \/ GetCustomers(h) \/ PostCustomer(h) \/ PostAppointment(h)
SpecApi == InitApi /\ [][NextApi]_vars

\* C23: a request that lacks a required field, or whose appointment_date or
\* appointment_time is not in the required format (YYYY-MM-DD, HH:MM), is
\* answered with status 400 and makes no request to the datastore.
C23_BadBodyIs400 ==
    \A h \in Handlers :
        (/\ handlers[h].pc # "idle"
         /\ \/ \E f \in RequiredFields : handlers[h].data[f].kind = "absent"
            \/ ~IsYYYYMMDD(handlers[h].data.appointment_date)
            \/ ~IsHHMM(handlers[h].data.appointment_time))
        => /\ handlers[h].pc = "done"
           /\ handlers[h].status = 400
           /\ handlers[h].calls = 0

\* C30: a datastore that holds at most one customer per phone still does
\* after any interleaving of requests: a customer is created only when no
\* customer with that phone exists.
C30_OneCustomerPerPhone ==
    /\ [](\A i, j \in DOMAIN customers : customers[i] = customers[j] => i = j)
    /\ [][Len(customers') > Len(customers) =>
            FirstWithPhone(customers, customers'[Len(customers')], 1) = 0]_vars

====
